---- MODULE Spec2Model ----
(***************************************************************************)
(* Model of king_phisher/client/windows/plugin_manager.py: the plugin      *)
(* manager window's persisted records (config['plugins.installed'],        *)
(* config['plugins.enabled']), the plugin registry it drives, the row tree *)
(* (Gtk.TreeStore) and the handlers that keep them in step.                *)
(***************************************************************************)
EXTENDS Naturals, Sequences, FiniteSets, TLC

\* ------------------------------------------------------------------ bounds
\* longest config['plugins.enabled'] list the enable handler is explored with
MaxEnabled == 2

\* ------------------------------------------------------- the environment
Plugins == {"foo"}
Catalogs == {"catA", "catB"}

\* the artifact install_plugin writes under plugin_path: a package directory
\* (<id>/__init__.py) or a single file (<id>.py)
ArtifactForm(plugin_id) == IF plugin_id = "foo" THEN "dir" ELSE "file"

_ROW_TYPE_PLUGIN == "plugin"
_ROW_TYPE_REPOSITORY == "repository"
_ROW_TYPE_CATALOG == "catalog"
_LOCAL_REPOSITORY_ID == "local"
_LOCAL_REPOSITORY_TITLE == "[Locally Installed]"

\* the repositories of a catalog document (ids; the title is the id)
Repositories(catalog_id) == IF catalog_id = "catA" THEN {"r1"} ELSE {"r2"}

\* catalog_plugins.get_collection(catalog_id, repo_id): plugin ids listed
get_collection(catalog_id, repo_id) ==
    IF catalog_id = "catA" /\ repo_id = "r1" THEN {"foo"}
    ELSE IF catalog_id = "catB" /\ repo_id = "r2" THEN {"foo"}
    ELSE {}

\* plugin_info['title'], plugin_info['version'] of a collection entry
CollectionTitle(catalog_id, plugin_name) == plugin_name \o " plugin"
CollectionVersion(catalog_id) == IF catalog_id = "catA" THEN "1.1" ELSE "2.0"

\* catalog_plugins.is_compatible(catalog_id, repo_id, plugin_name)
is_compatible(catalog_id, repo_id, plugin_name) == TRUE

\* the plugin classes an import of plugin_name can yield: one that meets its
\* requirements in the running client and one that does not
Klasses(plugin_name) ==
    { [title |-> plugin_name \o " plugin", version |-> "1.1", is_compatible |-> c] :
        c \in BOOLEAN }

\* the import of a plugin raising
LoadError == [title |-> "raise", version |-> "raise", is_compatible |-> FALSE]

LoadResults == [Plugins -> UNION {Klasses(p) : p \in Plugins} \cup {LoadError}]

\* config['plugins.installed'][name] = None
None == [catalog_id |-> "None", repo_id |-> "None", plugin_id |-> "None"]

\* {'catalog_id': ..., 'repo_id': ..., 'plugin_id': ...}
Source(catalog_id, repo_id, plugin_id) ==
    [catalog_id |-> catalog_id, repo_id |-> repo_id, plugin_id |-> plugin_id]

\* the sources a record of plugin_id can name
Sources(plugin_id) ==
    UNION { { Source(c, r, plugin_id) : r \in Repositories(c) } : c \in Catalogs }

Range(f) == { f[i] : i \in DOMAIN f }

\* ------------------------------------------------------------------ state
VARIABLES
    installed,      \* config['plugins.installed']: id -> None | source
    enabled,        \* config['plugins.enabled']: list of ids
    loaded_plugins, \* pm.loaded_plugins: id -> class
    enabled_plugins,\* pm.enabled_plugins: ids with a live instance
    module_errors,  \* self._module_errors: ids with a captured failure
    disk,           \* id -> the artifact under self.plugin_path: none, dir, file
    search_path,    \* ids importable from a search path other than plugin_path
    catalogs,       \* self.catalog_plugins.catalogs: the live catalogs
    cache,          \* ids of the catalogs in the catalog cache
    model,          \* self._model: row path -> row
    load_thread,    \* self.load_thread: the target it is running, or dead
    thread,         \* where the load thread is in its target, and its locals
    idle,           \* the callbacks handed to GLib.idle_add, not yet run
    handler         \* where the install handler the main loop runs is

vars == << installed, enabled, loaded_plugins, enabled_plugins, module_errors,
           disk, search_path, catalogs, cache, model, load_thread,
           thread, idle, handler >>

\* a load thread that is not followed step by step, and no handler in flight
NoThread ==
    [ pc |-> "dead", waiting |-> FALSE, keys |-> {}, names |-> {}, name |-> "",
      plugin |-> LoadError, models |-> << >>, todo |-> << >>, jobs |-> 0 ]
NoHandler ==
    [ pc |-> "none", path |-> << >>, plugin_src |-> None, overlap |-> FALSE,
      written |-> FALSE ]

\* the state as one value, threaded through the handlers; a handler leaves
\* behind what it did: outcome (ok, failed, declined, rejected, refused,
\* ignored, raised), the error dialogs it showed, the collaborator calls it
\* made and the return value of its last helper (ret)
State ==
    [ installed |-> installed, enabled |-> enabled,
      loaded_plugins |-> loaded_plugins, enabled_plugins |-> enabled_plugins,
      module_errors |-> module_errors, disk |-> disk,
      search_path |-> search_path, catalogs |-> catalogs,
      cache |-> cache, model |-> model, load_thread |-> load_thread,
      outcome |-> "ok", dialogs |-> {}, calls |-> {}, ret |-> TRUE ]

\* the fields of a state value become the next state
Write(s) ==
    /\ installed' = s.installed
    /\ enabled' = s.enabled
    /\ loaded_plugins' = s.loaded_plugins
    /\ enabled_plugins' = s.enabled_plugins
    /\ module_errors' = s.module_errors
    /\ disk' = s.disk
    /\ search_path' = s.search_path
    /\ catalogs' = s.catalogs
    /\ cache' = s.cache
    /\ model' = s.model
    /\ load_thread' = s.load_thread

\* the handler's result becomes the next state
Apply(s) == Write(s) /\ UNCHANGED << thread, idle, handler >>

\* the variables hold the fields of a state value
Fields(s) ==
    /\ installed = s.installed
    /\ enabled = s.enabled
    /\ loaded_plugins = s.loaded_plugins
    /\ enabled_plugins = s.enabled_plugins
    /\ module_errors = s.module_errors
    /\ disk = s.disk
    /\ search_path = s.search_path
    /\ catalogs = s.catalogs
    /\ cache = s.cache
    /\ model = s.model
    /\ load_thread = s.load_thread

\* the state the constructor's load leaves behind
Constructed(s) ==
    Fields(s) /\ thread = NoThread /\ idle = << >> /\ handler = NoHandler

\* --------------------------------------------------------------- the rows
_named_model(id, inst, en, title, compat, ver, vis_en, vis_inst, sens_inst, type) ==
    [ id |-> id, installed |-> inst, enabled |-> en, title |-> title,
      compatibility |-> compat, version |-> ver,
      visible_enabled |-> vis_en, visible_installed |-> vis_inst,
      sensitive_installed |-> sens_inst, type |-> type ]

\* a catalog or repository row; the bool column stores installed=None as False
GroupRow(id, title, type) ==
    _named_model(id, FALSE, TRUE, title, "None", "None", FALSE, FALSE, FALSE, type)

YesNo(b) == IF b THEN "Yes" ELSE "No"

Remove(f, keys) == [ k \in DOMAIN f \ keys |-> f[k] ]

\* self._set_model_item(model_path, item, item_value)
_set_model_item(s, path, item, item_value) ==
    [ s EXCEPT !.calls = @ \cup {"_set_model_item"}, !.model = [ @ EXCEPT ![path] =
        CASE item = "installed" -> [ @ EXCEPT !.installed = item_value ]
          [] item = "enabled" -> [ @ EXCEPT !.enabled = item_value ]
          [] item = "title" -> [ @ EXCEPT !.title = item_value ]
          [] item = "compatibility" -> [ @ EXCEPT !.compatibility = item_value ]
          [] item = "version" -> [ @ EXCEPT !.version = item_value ] ] ]

\* ------------------------------------------------------ the plugin registry
\* a plugin the registry's search path can import
Available(s) == { p \in Plugins : s.disk[p] # "none" } \cup s.search_path

\* self._on_plugin_load_error(name, error)
_on_plugin_load_error(s, name) ==
    [ s EXCEPT !.module_errors = @ \cup {name} ]

\* pm.load_all(on_error=self._on_plugin_load_error): every plugin on the search
\* path that is not loaded yet is imported; a failing import is reported
load_all(s, results) ==
    LET todo == Available(s) \ DOMAIN s.loaded_plugins
        ok == { p \in todo : results[p] \in Klasses(p) }
        failed == todo \ ok
    IN  [ s EXCEPT
            !.loaded_plugins = [ p \in DOMAIN @ \cup ok |->
                                 IF p \in ok THEN results[p] ELSE @[p] ],
            !.module_errors = s.module_errors \cup
                { p \in failed : p \in _on_plugin_load_error(s, p).module_errors },
            !.calls = @ \cup {"pm.load_all"} ]

\* ---------------------------------------------------------- reconciliation
Truthy(s, name) == name \in DOMAIN s.installed /\ s.installed[name] # None

\* the rows of the Local catalog: loaded plugins with no (truthy) record, and
\* one "(Load Failed)" row per module error
LocalRows(s, names) ==
    ( <<_LOCAL_REPOSITORY_ID>> :>
        GroupRow(_LOCAL_REPOSITORY_ID, _LOCAL_REPOSITORY_TITLE, _ROW_TYPE_CATALOG) )
    @@ [ path \in { <<_LOCAL_REPOSITORY_ID, p>> : p \in names } |->
           LET plugin == s.loaded_plugins[path[2]]
           IN  _named_model(path[2], TRUE, path[2] \in s.enabled_plugins,
                   plugin.title, YesNo(plugin.is_compatible), plugin.version,
                   TRUE, TRUE, FALSE, _ROW_TYPE_PLUGIN) ]
    @@ [ path \in { <<_LOCAL_REPOSITORY_ID, p>> : p \in s.module_errors } |->
           _named_model(path[2], TRUE, FALSE, path[2] \o " (Load Failed)",
               "No", "Unknown", TRUE, TRUE, FALSE, _ROW_TYPE_PLUGIN) ]

\* _add_plugins_to_tree with line 330 outside the if of line 328: the enabled
\* flag follows config['plugins.enabled'] on every row of the plugin
_add_plugins_to_tree_enabled_anywhere(s, catalog_id, repo_id) ==
    [ path \in { <<catalog_id, repo_id, p>> : p \in get_collection(catalog_id, repo_id) } |->
        LET plugin_name == path[3]
            inst == /\ Truthy(s, plugin_name)
                    /\ repo_id = s.installed[plugin_name].repo_id
                    /\ catalog_id = s.installed[plugin_name].catalog_id
        IN  _named_model(plugin_name, inst,
                plugin_name \in Range(s.enabled),
                CollectionTitle(catalog_id, plugin_name),
                YesNo(is_compatible(catalog_id, repo_id, plugin_name)),
                CollectionVersion(catalog_id), TRUE, TRUE,
                is_compatible(catalog_id, repo_id, plugin_name),
                _ROW_TYPE_PLUGIN) ]

\* one row per plugin of a live repository's collection
_add_plugins_to_tree(s, catalog_id, repo_id) ==
    [ path \in { <<catalog_id, repo_id, p>> : p \in get_collection(catalog_id, repo_id) } |->
        LET plugin_name == path[3]
            inst == /\ Truthy(s, plugin_name)
                    /\ repo_id = s.installed[plugin_name].repo_id
                    /\ catalog_id = s.installed[plugin_name].catalog_id
        IN  _named_model(plugin_name, inst,
                inst /\ plugin_name \in Range(s.enabled),
                CollectionTitle(catalog_id, plugin_name),
                YesNo(is_compatible(catalog_id, repo_id, plugin_name)),
                CollectionVersion(catalog_id), TRUE, TRUE,
                is_compatible(catalog_id, repo_id, plugin_name),
                _ROW_TYPE_PLUGIN) ]

\* the catalog row, its repository rows and their plugin rows
_add_catalog_to_tree(s, catalog_id) ==
    ( <<catalog_id>> :> GroupRow(catalog_id, catalog_id, _ROW_TYPE_CATALOG) )
    @@ [ path \in { <<catalog_id, r>> : r \in Repositories(catalog_id) } |->
           GroupRow(path[2], path[2], _ROW_TYPE_REPOSITORY) ]
    @@ [ path \in UNION { DOMAIN _add_plugins_to_tree(s, catalog_id, r) :
                           r \in Repositories(catalog_id) } |->
           _add_plugins_to_tree(s, catalog_id, path[2])[path] ]

\* the installed, loaded plugins of a repository known from the cache only
_add_plugins_offline(s, catalog_id, repo_id) ==
    [ path \in { <<catalog_id, repo_id, p>> : p \in
                   { q \in DOMAIN s.installed :
                       /\ s.installed[q] # None
                       /\ q \in DOMAIN s.loaded_plugins
                       /\ s.installed[q].catalog_id = catalog_id
                       /\ s.installed[q].repo_id = repo_id } } |->
        LET plugin == s.loaded_plugins[path[3]]
        IN  _named_model(path[3], TRUE, path[3] \in Range(s.enabled),
                plugin.title, YesNo(plugin.is_compatible), plugin.version,
                TRUE, TRUE, FALSE, _ROW_TYPE_PLUGIN) ]

\* the stub rows of a catalog that is in the cache and not live
StubRows(s, catalog_id) ==
    ( <<catalog_id>> :> GroupRow(catalog_id, catalog_id, _ROW_TYPE_CATALOG) )
    @@ [ path \in { <<catalog_id, r>> : r \in Repositories(catalog_id) } |->
           GroupRow(path[2], path[2], _ROW_TYPE_REPOSITORY) ]
    @@ [ path \in UNION { DOMAIN _add_plugins_offline(s, catalog_id, r) :
                           r \in Repositories(catalog_id) } |->
           _add_plugins_offline(s, catalog_id, path[2])[path] ]

RECURSIVE Merge(_, _)
\* the union of the row functions f[x], x in S (their domains are disjoint)
Merge(f, S) ==
    IF S = {} THEN << >>
    ELSE LET x == CHOOSE y \in S : TRUE IN f[x] @@ Merge(f, S \ {x})

\* _load_plugins without line 241: the errors of earlier runs stay on record
_load_plugins_keeps_errors(s, results) ==
    LET s1 == load_all([ s EXCEPT !.model = << >>,
                                  !.calls = @ \cup {"_load_plugins", "store.clear"} ],
                       results)
        names == { name \in DOMAIN s1.loaded_plugins : ~Truthy(s1, name) }
        s2 == [ s1 EXCEPT !.installed =
                  [ p \in DOMAIN @ \cup names |-> IF p \in names THEN None ELSE @[p] ] ]
    IN  [ s2 EXCEPT !.calls = @ \cup {"glib_idle_add(store.append)"}, !.model =
            LocalRows(s2, names)
            @@ Merge([ c \in s2.catalogs |-> _add_catalog_to_tree(s2, c) ], s2.catalogs)
            @@ Merge([ c \in s2.cache \ s2.catalogs |-> StubRows(s2, c) ],
                     s2.cache \ s2.catalogs) ]

\* _load_plugins without the test of line 247: every loaded plugin is written
_load_plugins_writes_all(s, results) ==
    LET s1 == load_all([ s EXCEPT !.model = << >>, !.module_errors = {},
                                  !.calls = @ \cup {"_load_plugins", "store.clear"} ],
                       results)
        names == DOMAIN s1.loaded_plugins
        s2 == [ s1 EXCEPT !.installed =
                  [ p \in DOMAIN @ \cup names |-> IF p \in names THEN None ELSE @[p] ] ]
    IN  [ s2 EXCEPT !.calls = @ \cup {"glib_idle_add(store.append)"}, !.model =
            LocalRows(s2, names)
            @@ Merge([ c \in s2.catalogs |-> _add_catalog_to_tree(s2, c) ], s2.catalogs)
            @@ Merge([ c \in s2.cache \ s2.catalogs |-> StubRows(s2, c) ],
                     s2.cache \ s2.catalogs) ]

\* self._load_plugins(): clear the store, load every plugin, record None for
\* each loaded plugin without a record, and emit the whole tree again
_load_plugins(s, results) ==
    LET s1 == load_all([ s EXCEPT !.model = << >>, !.module_errors = {},
                                  !.calls = @ \cup {"_load_plugins", "store.clear"} ],
                       results)
        names == { name \in DOMAIN s1.loaded_plugins : ~Truthy(s1, name) }
        s2 == [ s1 EXCEPT !.installed =
                  [ p \in DOMAIN @ \cup names |-> IF p \in names THEN None ELSE @[p] ] ]
    IN  [ s2 EXCEPT !.calls = @ \cup {"glib_idle_add(store.append)"}, !.model =
            LocalRows(s2, names)
            @@ Merge([ c \in s2.catalogs |-> _add_catalog_to_tree(s2, c) ], s2.catalogs)
            @@ Merge([ c \in s2.cache \ s2.catalogs |-> StubRows(s2, c) ],
                     s2.cache \ s2.catalogs) ]

\* ------------------------------------------------- registry and transport
\* an uncaught exception leaves the handler at once
Raise(s) == [ s EXCEPT !.outcome = "raised" ]

\* pm.unload(name): a loaded plugin is disabled and dropped; else no change
pm_unload(s, name) ==
    [ s EXCEPT !.loaded_plugins = Remove(@, {name}),
               !.enabled_plugins = @ \ {name},
               !.calls = @ \cup {"pm.unload"} ]

\* pm.disable(name): for a plugin the registry has no instance of, the call
\* either changes nothing or raises (strict)
pm_disable(s, name, strict) ==
    LET s1 == [ s EXCEPT !.calls = @ \cup {"pm.disable"} ]
    IN  IF name \in s.enabled_plugins
        THEN [ s1 EXCEPT !.enabled_plugins = @ \ {name} ]
        ELSE IF strict THEN Raise(s1) ELSE s1

\* pm.enable(name) -> bool: the registry may refuse (ok = FALSE); it never
\* enables a plugin whose class is incompatible
pm_enable(s, name, ok) ==
    LET done == /\ ok
                /\ name \in DOMAIN s.loaded_plugins
                /\ s.loaded_plugins[name].is_compatible
    IN  [ s EXCEPT !.enabled_plugins = IF done THEN @ \cup {name} ELSE @,
                   !.calls = @ \cup {"pm.enable"},
                   !.ret = done ]

\* pm.load(name, reload_module=True): the class, or raises (ret = FALSE)
pm_load(s, name, result) ==
    LET done == name \in Available(s) /\ result \in Klasses(name)
    IN  [ s EXCEPT !.loaded_plugins =
                      IF done THEN (name :> result) @@ @ ELSE @,
                   !.calls = @ \cup {"pm.load"},
                   !.ret = done ]

\* catalog_plugins.install_plugin(catalog_id, repo_id, plugin_id, plugin_path):
\* writes the artifact, or raises ConnectionError or another exception
install_plugin(s, plugin_id, result) ==
    [ s EXCEPT !.disk = IF result = "ok"
                        THEN [ @ EXCEPT ![plugin_id] = ArtifactForm(plugin_id) ]
                        ELSE @,
               !.calls = @ \cup {"install_plugin"} ]

InstallResults == {"ok", "ConnectionError", "Exception"}

\* ------------------------------------------------------------ the handlers
\* list.remove(x): the first occurrence
RECURSIVE ListRemove(_, _)
ListRemove(list, x) ==
    IF list = << >> THEN << >>
    ELSE IF Head(list) = x THEN Tail(list)
    ELSE <<Head(list)>> \o ListRemove(Tail(list), x)

\* self._disable_plugin(path): registry disable, then the Enabled Set, then
\* the row (list.remove raises ValueError when the id is not in the list)
_disable_plugin(s, path, strict) ==
    LET id == s.model[path].id
        s1 == pm_disable(s, id, strict)
    IN  IF s1.outcome = "raised" THEN s1
        ELSE IF id \notin Range(s1.enabled) THEN Raise(s1)
        ELSE _set_model_item([ s1 EXCEPT !.enabled = ListRemove(@, id) ],
                             path, "enabled", FALSE)

\* _uninstall_plugin without the return of line 616: the removal goes on
\* though no artifact was found
_uninstall_plugin_goes_on(s, model_path) ==
    LET plugin_id == s.model[model_path].id
        s1 == pm_unload([ s EXCEPT !.disk[plugin_id] = "none",
                                   !.calls = @ \cup {"_uninstall_plugin"} ],
                        plugin_id)
    IN  IF plugin_id \notin DOMAIN s1.installed THEN Raise(s1)
        ELSE LET s2 == [ s1 EXCEPT !.installed = Remove(@, {plugin_id}),
                                   !.ret = TRUE ]
             IN  IF Len(model_path) = 2 /\ model_path[1] = _LOCAL_REPOSITORY_ID
                 THEN [ s2 EXCEPT !.model = Remove(@, {model_path}) ]
                 ELSE _set_model_item(s2, model_path, "installed", FALSE)

\* self._uninstall_plugin(model_path) -> the return value is left in ret
_uninstall_plugin(s, model_path) ==
    LET plugin_id == s.model[model_path].id
    IN  IF s.disk[plugin_id] = "none"
        THEN [ s EXCEPT !.ret = FALSE, !.calls = @ \cup {"_uninstall_plugin"} ]
        ELSE LET s1 == pm_unload([ s EXCEPT !.disk[plugin_id] = "none",
                                            !.calls = @ \cup {"_uninstall_plugin"} ],
                                 plugin_id)
             IN  IF plugin_id \notin DOMAIN s1.installed THEN Raise(s1)
                 ELSE LET s2 == [ s1 EXCEPT !.installed = Remove(@, {plugin_id}),
                                            !.ret = TRUE ]
                      IN  IF Len(model_path) = 2 /\ model_path[1] = _LOCAL_REPOSITORY_ID
                          THEN [ s2 EXCEPT !.model = Remove(@, {model_path}) ]
                          ELSE _set_model_item(s2, model_path, "installed", FALSE)

\* the row _remove_matching_plugin settles on: the child, with the id of the
\* row at path, of the repository row plugin_src names (of the Local catalog
\* row when plugin_src is None); << >> when there is none
MatchingRow(s, path, plugin_src) ==
    LET repo_model ==
            IF plugin_src # None
            THEN <<plugin_src.catalog_id, plugin_src.repo_id>>
            ELSE <<_LOCAL_REPOSITORY_ID>>
        plugin_model == repo_model \o <<s.model[path].id>>
    IN  IF repo_model \in DOMAIN s.model /\ plugin_model \in DOMAIN s.model
        THEN plugin_model ELSE << >>

\* self._remove_matching_plugin(path, plugin_src) -> ret
_remove_matching_plugin(s, path, plugin_src, strict) ==
    LET plugin_model == MatchingRow(s, path, plugin_src)
    IN  IF plugin_model = << >> THEN [ s EXCEPT !.ret = FALSE ]
        ELSE LET s1 == IF s.model[plugin_model].enabled
                       THEN _disable_plugin(s, plugin_model, strict)
                       ELSE s
             IN  IF s1.outcome = "raised" THEN s1
                 ELSE LET s2 == _uninstall_plugin(s1, plugin_model)
                      IN  IF s2.outcome = "raised" THEN s2
                          ELSE [ s2 EXCEPT !.ret = TRUE ]

\* the install with the two except clauses in the other order: the general one
\* catches the ConnectionError
InstallFrom_except_order(s, path, result, results) ==
    LET id == s.model[path].id
        s1 == install_plugin(s, id, result)
    IN  IF result # "ok"
        THEN [ s1 EXCEPT !.outcome = "failed", !.dialogs = @ \cup {"Failed to install"} ]
        ELSE LET s2 == [ s1 EXCEPT !.installed =
                            (id :> Source(path[1], path[2], id)) @@ @ ]
                 s3 == _set_model_item(s2, path, "installed", TRUE)
                 s4 == _set_model_item(s3, path, "version", CollectionVersion(path[1]))
             IN  load_all(s4, results)

\* the part of signal_renderer_toggled_install from the install on
InstallFrom(s, path, result, results) ==
    LET id == s.model[path].id
        s1 == install_plugin(s, id, result)
    IN  IF result = "ConnectionError"
        THEN [ s1 EXCEPT !.outcome = "failed", !.dialogs = @ \cup {"check your internet connection"} ]
        ELSE IF result = "Exception"
        THEN [ s1 EXCEPT !.outcome = "failed", !.dialogs = @ \cup {"Failed to install"} ]
        ELSE LET s2 == [ s1 EXCEPT !.installed =
                            (id :> Source(path[1], path[2], id)) @@ @ ]
                 s3 == _set_model_item(s2, path, "installed", TRUE)
                 s4 == _set_model_item(s3, path, "version", CollectionVersion(path[1]))
             IN  load_all(s4, results)

\* self.signal_renderer_toggled_install(_, path)
signal_renderer_toggled_install(s, path, confirm, result, results, strict) ==
    LET named_row == s.model[path]
        src == Source(path[1], path[2], named_row.id)
    IN  IF named_row.installed
        THEN IF named_row.enabled /\ ~confirm
             THEN [ s EXCEPT !.outcome = "declined" ]
             ELSE LET s1 == IF named_row.enabled
                            THEN _disable_plugin(s, path, strict) ELSE s
                  IN  IF s1.outcome = "raised" THEN s1
                      ELSE LET s2 == _uninstall_plugin(s1, path)
                           IN  IF s2.outcome = "raised" \/ s2.ret THEN s2
                               ELSE [ s2 EXCEPT !.outcome = "failed" ]
        ELSE IF named_row.id \in DOMAIN s.installed /\ s.installed[named_row.id] # src
        THEN IF ~confirm THEN [ s EXCEPT !.outcome = "declined" ]
             ELSE LET s1 == _remove_matching_plugin(s, path, s.installed[named_row.id], strict)
                  IN  IF s1.outcome = "raised" THEN s1
                      ELSE IF ~s1.ret THEN [ s1 EXCEPT !.outcome = "failed" ]
                      ELSE InstallFrom(s1, path, result, results)
        ELSE InstallFrom(s, path, result, results)

\* which transition a toggle of the Installed cell of the row at path asks for
InstallKind(s, path) ==
    IF s.model[path].installed THEN "uninstall"
    ELSE IF /\ s.model[path].id \in DOMAIN s.installed
            /\ s.installed[s.model[path].id] # Source(path[1], path[2], s.model[path].id)
         THEN "replace_source"
         ELSE "install"

\* the enable handler without the check of self._module_errors
signal_renderer_toggled_enable_unchecked(s, path, ok, strict) ==
    LET named_row == s.model[path]
    IN  IF named_row.type # _ROW_TYPE_PLUGIN THEN [ s EXCEPT !.outcome = "ignored" ]
        ELSE IF named_row.id \notin DOMAIN s.loaded_plugins
        THEN [ s EXCEPT !.outcome = "ignored" ]
        ELSE IF named_row.enabled THEN _disable_plugin(s, path, strict)
        ELSE IF ~s.loaded_plugins[named_row.id].is_compatible
        THEN [ s EXCEPT !.outcome = "rejected",
                        !.dialogs = @ \cup {"This plugin is not compatible."} ]
        ELSE LET s1 == pm_enable(s, named_row.id, ok)
             IN  IF ~s1.ret THEN [ s1 EXCEPT !.outcome = "refused" ]
                 ELSE [ _set_model_item(s1, path, "enabled", TRUE)
                          EXCEPT !.enabled = Append(@, named_row.id) ]

\* self.signal_renderer_toggled_enable(_, path)
signal_renderer_toggled_enable(s, path, ok, strict) ==
    LET named_row == s.model[path]
    IN  IF named_row.type # _ROW_TYPE_PLUGIN THEN [ s EXCEPT !.outcome = "ignored" ]
        ELSE IF named_row.id \notin DOMAIN s.loaded_plugins
        THEN [ s EXCEPT !.outcome = "ignored" ]
        ELSE IF named_row.id \in s.module_errors
        THEN [ s EXCEPT !.outcome = "rejected",
                        !.dialogs = @ \cup {"Can not enable a plugin which failed to load."} ]
        ELSE IF named_row.enabled THEN _disable_plugin(s, path, strict)
        ELSE IF ~s.loaded_plugins[named_row.id].is_compatible
        THEN [ s EXCEPT !.outcome = "rejected",
                        !.dialogs = @ \cup {"This plugin is not compatible."} ]
        ELSE LET s1 == pm_enable(s, named_row.id, ok)
             IN  IF ~s1.ret THEN [ s1 EXCEPT !.outcome = "refused" ]
                 ELSE [ _set_model_item(s1, path, "enabled", TRUE)
                          EXCEPT !.enabled = Append(@, named_row.id) ]

EnableKind(s, path) == IF s.model[path].enabled THEN "disable" ELSE "enable"

\* _reload_plugin with the enable in a finally clause: a plugin that was
\* enabled is handed to pm.enable though its load raised
_reload_plugin_finally(s, path, result, ok) ==
    LET id == s.model[path].id
        was_enabled == id \in s.enabled_plugins
        s1 == pm_load(pm_unload(s, id), id, result)
    IN  IF ~s1.ret
        THEN LET f == [ _set_model_item(_on_plugin_load_error(s1, id), path, "title",
                                        id \o " (Reload Failed)")
                          EXCEPT !.outcome = "failed" ]
             IN  IF was_enabled THEN [ pm_enable(f, id, ok) EXCEPT !.ret = FALSE ] ELSE f
        ELSE LET klass == s1.loaded_plugins[id]
                 s2 == [ s1 EXCEPT !.module_errors = @ \ {id} ]
                 s3 == _set_model_item(s2, path, "title", klass.title)
                 s4 == _set_model_item(s3, path, "compatibility", YesNo(klass.is_compatible))
                 s5 == _set_model_item(s4, path, "version", klass.version)
             IN  IF was_enabled THEN [ pm_enable(s5, id, ok) EXCEPT !.ret = TRUE ]
                 ELSE s5

\* _reload_plugin without lines 477-478: the error of an earlier load stays
_reload_plugin_keeps_error(s, path, result, ok) ==
    LET id == s.model[path].id
        was_enabled == id \in s.enabled_plugins
        s1 == pm_load(pm_unload(s, id), id, result)
    IN  IF ~s1.ret
        THEN [ _set_model_item(_on_plugin_load_error(s1, id), path, "title",
                               id \o " (Reload Failed)")
                 EXCEPT !.outcome = "failed" ]
        ELSE LET klass == s1.loaded_plugins[id]
                 s3 == _set_model_item(s1, path, "title", klass.title)
                 s4 == _set_model_item(s3, path, "compatibility", YesNo(klass.is_compatible))
                 s5 == _set_model_item(s4, path, "version", klass.version)
             IN  IF was_enabled THEN [ pm_enable(s5, id, ok) EXCEPT !.ret = TRUE ]
                 ELSE s5

\* self._reload_plugin(named_row, model_row, pm, tree_iter, selected_plugin)
_reload_plugin(s, path, result, ok) ==
    LET id == s.model[path].id
        was_enabled == id \in s.enabled_plugins
        s1 == pm_load(pm_unload(s, id), id, result)
    IN  IF ~s1.ret
        THEN [ _set_model_item(_on_plugin_load_error(s1, id), path, "title",
                               id \o " (Reload Failed)")
                 EXCEPT !.outcome = "failed" ]
        ELSE LET klass == s1.loaded_plugins[id]
                 s2 == [ s1 EXCEPT !.module_errors = @ \ {id} ]
                 s3 == _set_model_item(s2, path, "title", klass.title)
                 s4 == _set_model_item(s3, path, "compatibility", YesNo(klass.is_compatible))
                 s5 == _set_model_item(s4, path, "version", klass.version)
             IN  IF was_enabled THEN [ pm_enable(s5, id, ok) EXCEPT !.ret = TRUE ]
                 ELSE s5

FetchResults == {"ok", "ConnectionError", "Exception"}

\* self._load_catalog_from_url(catalog_url): the dialog of a failed fetch
_load_catalog_from_url(s, fetch) ==
    IF fetch = "ok" THEN s
    ELSE [ s EXCEPT !.dialogs = @ \cup
             { IF fetch = "ConnectionError"
               THEN "Failed to download catalog, check your internet connection."
               ELSE "Failed to add catalog" } ]

\* _reload_catalog that removes the rows only once the fetch has succeeded
_reload_catalog_fetches_first(s, catalog_id, fetch, results) ==
    LET s1 == s
    IN  IF catalog_id \notin s1.cache THEN Raise(s1)
        ELSE LET s2 == _load_catalog_from_url(s1, fetch)
             IN  IF fetch # "ok" THEN [ s2 EXCEPT !.outcome = "failed" ]
                 ELSE _load_plugins([ s2 EXCEPT !.catalogs = @ \cup {catalog_id},
                                                !.cache = @ \cup {catalog_id} ],
                                    results)

\* self._reload_catalog(named_row, tree_iter): the catalog's rows go first
_reload_catalog(s, catalog_id, fetch, results) ==
    LET s1 == [ s EXCEPT !.calls = @ \cup {"_model.remove"}, !.model =
                  Remove(@, { path \in DOMAIN @ : path[1] = catalog_id }) ]
    IN  IF catalog_id \notin s1.cache THEN Raise(s1)
        ELSE LET s2 == _load_catalog_from_url(s1, fetch)
             IN  IF fetch # "ok" THEN [ s2 EXCEPT !.outcome = "failed" ]
                 ELSE _load_plugins([ s2 EXCEPT !.catalogs = @ \cup {catalog_id},
                                                !.cache = @ \cup {catalog_id} ],
                                    results)

\* self._reload() with the row at path selected
_reload(s, path, result, ok, fetch, results) ==
    LET named_row == s.model[path]
    IN  IF named_row.type = _ROW_TYPE_CATALOG /\ named_row.id # _LOCAL_REPOSITORY_ID
        THEN _reload_catalog(s, named_row.id, fetch, results)
        ELSE IF named_row.type = _ROW_TYPE_REPOSITORY
        THEN _reload_catalog(s, path[1], fetch, results)
        ELSE IF named_row.type = _ROW_TYPE_PLUGIN
        THEN IF ~named_row.installed THEN [ s EXCEPT !.outcome = "ignored" ]
             ELSE _reload_plugin(s, path, result, ok)
        ELSE [ s EXCEPT !.outcome = "ignored" ]

ReloadKind(s, path) ==
    IF s.model[path].type = _ROW_TYPE_PLUGIN THEN "reload"
    ELSE IF s.model[path].id = _LOCAL_REPOSITORY_ID THEN "reload_local"
    ELSE "reload_catalog"

\* self.config['catalogs'], in the order the loop of line 169 takes them
config_catalogs == <<"catA", "catB">>

\* expiration = datetime.timedelta(hours=4), and the ages (now - created, in
\* hours) a cache entry is met with
expiration == 4
Ages == {3, 4, 5}

\* the loop of lines 169-184 from the i-th configured catalog on: a cache entry
\* that is fresh is reused (its document parses, valid) or makes line 175
\* raise AttributeError on error.__class__.__name (it does not parse); every
\* other catalog is fetched and, when the fetch succeeds, added and cached
RECURSIVE LoadEachCatalog(_, _, _, _, _, _)
LoadEachCatalog(s, refresh, age, valid, fetch, i) ==
    IF i > Len(config_catalogs) \/ s.outcome = "raised" THEN s
    ELSE LET c == config_catalogs[i]
             fresh == ~refresh /\ c \in s.cache /\ age[c] < expiration
         IN  IF fresh /\ valid[c]
             THEN LoadEachCatalog([ s EXCEPT !.catalogs = @ \cup {c},
                                             !.calls = @ \cup {"Catalog(cache) " \o c} ],
                                  refresh, age, valid, fetch, i + 1)
             ELSE IF fresh THEN Raise(s)
             ELSE LET s1 == _load_catalog_from_url(
                               [ s EXCEPT !.calls = @ \cup {"Catalog.from_url " \o c} ],
                               fetch[c])
                      s2 == IF fetch[c] = "ok"
                            THEN [ s1 EXCEPT !.catalogs = @ \cup {c},
                                             !.cache = @ \cup {c} ]
                            ELSE s1
                  IN  LoadEachCatalog(s2, refresh, age, valid, fetch, i + 1)

\* self._load_catalogs(refresh): a new catalog manager, the loop, _load_plugins
_load_catalogs(s, refresh, age, valid, fetch, results) ==
    LET s1 == LoadEachCatalog([ s EXCEPT !.catalogs = {} ], refresh, age, valid,
                              fetch, 1)
    IN  IF s1.outcome = "raised" THEN s1 ELSE _load_plugins(s1, results)

\* ------------------------------------------------------------ construction
\* the persisted configuration and the disk the window is constructed over:
\* every enabled plugin has a record, was loaded and enabled by the application
Init ==
    \E inst \in [Plugins -> {None} \cup UNION { Sources(p) : p \in Plugins }],
       keys \in SUBSET Plugins, en \in SUBSET Plugins, files \in SUBSET Plugins,
       bundled \in SUBSET Plugins,
       results \in LoadResults :
        /\ \A p \in keys : inst[p] = None \/ inst[p] \in Sources(p)
        /\ \A p \in Plugins \ keys : inst[p] = None
        /\ en \subseteq keys \cap (files \cup bundled)
        /\ \A p \in en : results[p] \in Klasses(p) /\ results[p].is_compatible
        /\ \A p \in Plugins : results[p] = LoadError \/ results[p] \in Klasses(p)
        /\ LET order == CHOOSE q \in [1..Cardinality(en) -> en] :
                            \A i, j \in DOMAIN q : i # j => q[i] # q[j]
               s0 == [ installed |-> [ p \in keys |-> inst[p] ],
                       enabled |-> order,
                       loaded_plugins |-> [ p \in en |-> results[p] ],
                       enabled_plugins |-> en,
                       module_errors |-> {},
                       disk |-> [ p \in Plugins |->
                                  IF p \in files THEN ArtifactForm(p) ELSE "none" ],
                       search_path |-> bundled,
                       catalogs |-> Catalogs, cache |-> Catalogs, model |-> << >>,
                       load_thread |-> "dead",
                       outcome |-> "ok", dialogs |-> {}, calls |-> {}, ret |-> TRUE ]
           IN  Constructed(_load_plugins(s0, results))

\* the rows whose Installed cell the user can toggle, the rows whose Enabled
\* cell the user can toggle, the plugin rows
InstallRows ==
    { path \in DOMAIN model :
        model[path].visible_installed /\ model[path].sensitive_installed }
EnableRows ==
    { path \in DOMAIN model : model[path].visible_enabled /\ model[path].installed }
PluginRows == { path \in DOMAIN model : model[path].type = _ROW_TYPE_PLUGIN }

\* every outcome of the imports of a load_all; a load_all that imports nothing
AnyLoad ==
    { f \in LoadResults : \A p \in Plugins : f[p] = LoadError \/ f[p] \in Klasses(p) }
NoLoad == [ p \in Plugins |-> LoadError ]

\* the state a handler that has returned leaves to the next one
Returned(r) == [ r EXCEPT !.outcome = "ok", !.dialogs = {}, !.calls = {}, !.ret = TRUE ]

\* ---------------------------------------------------------------- actions
\* the outcomes of the imports a load_all may make: only a plugin that is not
\* loaded (or that the handler unloads first, subject) is imported at all
LoadInputs(subject) ==
    { f \in LoadResults :
        \A p \in Plugins :
            /\ f[p] = LoadError \/ f[p] \in Klasses(p)
            /\ (p \in DOMAIN loaded_plugins /\ p \notin subject) => f[p] = LoadError }

\* an input the handler never reads is fixed to one value
Input(read, values, default) == IF read THEN values ELSE {default}

\* the two ways a fetch or an install fails differ in the dialog alone, which
\* is no part of the state: the steps take one of them
StepResults == {"ok", "ConnectionError"}

\* the user toggles the Enabled cell of a plugin row; the cell is drawn
\* (visible_enabled) and sensitive only on rows whose installed column is set
ToggledEnable ==
    \E path \in DOMAIN model :
        /\ model[path].visible_enabled
        /\ model[path].installed
        /\ model[path].enabled \/ Len(enabled) < MaxEnabled
        /\ \E ok \in Input(~model[path].enabled, BOOLEAN, TRUE),
              strict \in Input(model[path].enabled
                               /\ model[path].id \notin enabled_plugins, BOOLEAN, FALSE) :
              Apply(signal_renderer_toggled_enable(State, path, ok, strict))

\* the user toggles the Installed cell of a plugin row (visible_installed,
\* sensitive_installed) and answers the dialog the handler may show
ToggledInstall ==
    \E path \in DOMAIN model :
        /\ model[path].visible_installed
        /\ model[path].sensitive_installed
        /\ LET kind == InstallKind(State, path)
               id == model[path].id
           IN  \E confirm \in Input(kind = "replace_source"
                                    \/ (kind = "uninstall" /\ model[path].enabled),
                                    BOOLEAN, TRUE) :
               \E result \in Input(kind # "uninstall" /\ confirm, StepResults, "ok"),
                  strict \in Input(kind # "install" /\ confirm
                                   /\ id \notin enabled_plugins, BOOLEAN, FALSE) :
               \E results \in Input(kind # "uninstall" /\ result = "ok",
                                    LoadInputs({id}), [ p \in Plugins |-> LoadError ]) :
                   Apply(signal_renderer_toggled_install(State, path, confirm, result,
                                                         results, strict))

\* Reload on the selected row; the job runs to its end
Reload ==
    \E path \in DOMAIN model :
        LET kind == ReloadKind(State, path)
            id == model[path].id
        IN  \E result \in Input(kind = "reload" /\ model[path].installed,
                                Klasses(id) \cup {LoadError}, LoadError),
               ok \in Input(kind = "reload" /\ id \in enabled_plugins, BOOLEAN, TRUE),
               fetch \in Input(kind = "reload_catalog", StepResults, "ok") :
            \E results \in Input(kind = "reload_catalog" /\ fetch = "ok",
                                 LoadInputs({}), [ p \in Plugins |-> LoadError ]) :
                Apply(_reload(State, path, result, ok, fetch, results))

\* Reload All: every configured catalog is fetched again, then the tree rebuilt
ReloadAll ==
    \E fetch \in [Catalogs -> StepResults], results \in LoadInputs({}) :
        Apply(_load_catalogs(State, TRUE, [ c \in Catalogs |-> 5 ],
                             [ c \in Catalogs |-> TRUE ], fetch, results))

Next == ToggledEnable \/ ToggledInstall \/ Reload \/ ReloadAll
Spec == Init /\ [][Next]_vars

\* the window driven by enable, disable, reload of a plugin and install alone
Install ==
    \E path \in InstallRows :
        /\ InstallKind(State, path) = "install"
        /\ \E result \in StepResults :
           \E results \in Input(result = "ok", LoadInputs({model[path].id}), NoLoad) :
               Apply(signal_renderer_toggled_install(State, path, TRUE, result,
                                                     results, FALSE))

ReloadPlugin ==
    \E path \in PluginRows :
        LET id == model[path].id
        IN  \E result \in Input(model[path].installed,
                                Klasses(id) \cup {LoadError}, LoadError),
               ok \in Input(id \in enabled_plugins, BOOLEAN, TRUE) :
                Apply(_reload(State, path, result, ok, "ok", NoLoad))

NextNoUninstall == ToggledEnable \/ Install \/ ReloadPlugin
SpecNoUninstall == Init /\ [][NextNoUninstall]_vars

\* ------------------------------------------------------- the load thread
\* self.signal_popup_menu_activate_reload(_): a thread on _reload is started
\* unless the load thread is alive
signal_popup_menu_activate_reload(s) ==
    IF s.load_thread # "dead" THEN [ s EXCEPT !.outcome = "ignored" ]
    ELSE [ s EXCEPT !.load_thread = "_reload", !.calls = @ \cup {"Thread.start"} ]

\* self.signal_popup_menu_activate_reload_all(_): a thread on
\* _load_catalogs(refresh=True) is started unless the load thread is alive
signal_popup_menu_activate_reload_all(s) ==
    IF s.load_thread # "dead" THEN [ s EXCEPT !.outcome = "ignored" ]
    ELSE [ s EXCEPT !.load_thread = "_load_catalogs(refresh=True)",
                    !.calls = @ \cup {"Thread.start"} ]

\* the refresh callback handed to the TreeViewManager, cb_refresh=self._load_plugins
cb_refresh(s, results) == _load_plugins(s, results)

\* the inputs of a run of _load_catalogs: an age and a validity are read of a
\* cached catalog only, and only without refresh; a fetch is made of the rest
CatalogInputs(s, refresh) ==
    { in \in [ age : [Catalogs -> Ages], valid : [Catalogs -> BOOLEAN],
               fetch : [Catalogs -> StepResults] ] :
        \A c \in Catalogs :
            /\ (refresh \/ c \notin s.cache) => in.age[c] = 5 /\ in.valid[c]
            /\ (~refresh /\ c \in s.cache /\ in.age[c] < expiration)
                   => in.fetch[c] = "ok" }

\* what the target of the load thread does when it runs, to its end
Target(s, in, path, result, ok, results) ==
    IF s.load_thread = "_reload"
    THEN IF path \in DOMAIN s.model
         THEN _reload(s, path, result, ok, in.fetch[config_catalogs[1]], results)
         ELSE s
    ELSE _load_catalogs(s, s.load_thread = "_load_catalogs(refresh=True)",
                        in.age, in.valid, in.fetch, results)

\* the window as __init__ leaves it: the row tree is empty, no catalog is live
\* yet, the application has loaded and enabled the enabled plugins, and the
\* load thread is running _load_catalogs()
InitJobs ==
    \E inst \in [Plugins -> {None} \cup UNION { Sources(p) : p \in Plugins }],
       keys \in SUBSET Plugins, en \in SUBSET Plugins, files \in SUBSET Plugins,
       bundled \in SUBSET Plugins, cached \in SUBSET Catalogs :
        /\ \A p \in keys : inst[p] = None \/ inst[p] \in Sources(p)
        /\ \A p \in Plugins \ keys : inst[p] = None
        /\ en \subseteq keys \cap (files \cup bundled)
        /\ LET order == CHOOSE q \in [1..Cardinality(en) -> en] :
                            \A i, j \in DOMAIN q : i # j => q[i] # q[j]
           IN  Constructed(
                 [ installed |-> [ p \in keys |-> inst[p] ],
                   enabled |-> order,
                   loaded_plugins |->
                       [ p \in en |-> CHOOSE k \in Klasses(p) : k.is_compatible ],
                   enabled_plugins |-> en,
                   module_errors |-> {},
                   disk |-> [ p \in Plugins |->
                              IF p \in files THEN ArtifactForm(p) ELSE "none" ],
                   search_path |-> bundled,
                   catalogs |-> {}, cache |-> cached, model |-> << >>,
                   load_thread |-> "_load_catalogs()",
                   outcome |-> "ok", dialogs |-> {}, calls |-> {}, ret |-> TRUE ])

\* the user picks Reload in the popup menu
ActivateReload == Apply(signal_popup_menu_activate_reload(State))

\* the user picks Reload All in the popup menu
ActivateReloadAll == Apply(signal_popup_menu_activate_reload_all(State))

\* the user asks the tree view to refresh; the callback runs where it is called
Refresh == \E results \in LoadInputs({}) : Apply(cb_refresh(State, results))

\* the load thread runs its target to the end and dies; _reload reads the
\* selection when it runs
JobEnds ==
    /\ load_thread # "dead"
    /\ \E in \in CatalogInputs(State, load_thread # "_load_catalogs()"),
          path \in DOMAIN model \cup {<< >>} :
       \E result \in Input(load_thread = "_reload" /\ path \in PluginRows,
                           Klasses("foo") \cup {LoadError}, LoadError),
          ok \in Input(load_thread = "_reload" /\ path \in PluginRows, BOOLEAN, TRUE),
          results \in LoadInputs({}) :
           /\ load_thread # "_reload" => path = << >>
           /\ Apply([ Target(State, in, path, result, ok, results)
                        EXCEPT !.load_thread = "dead" ])

NextJobs == ActivateReload \/ ActivateReloadAll \/ Refresh \/ JobEnds
SpecJobs == InitJobs /\ [][NextJobs]_vars

\* ------------------------------------------------------------------ claims
\* C1: after every transition, every plugin id in config['plugins.enabled']
\* is a key of config['plugins.installed']
C1_EnabledHaveRecord ==
    \A p \in Range(enabled) : p \in DOMAIN installed

\* C2: a transition that fails (an uninstall, install or replace_source that
\* fails, an enable that is rejected or refused) leaves config['plugins.installed']
\* and config['plugins.enabled'] as they were before it started
C2_FailureLeavesRecords ==
    /\ \A path \in InstallRows, confirm \in BOOLEAN, result \in InstallResults,
          results \in AnyLoad, strict \in BOOLEAN :
          LET r == signal_renderer_toggled_install(State, path, confirm, result,
                                                   results, strict)
          IN  r.outcome = "failed" => r.installed = installed /\ r.enabled = enabled
    /\ \A path \in EnableRows, ok \in BOOLEAN, strict \in BOOLEAN :
          LET r == signal_renderer_toggled_enable(State, path, ok, strict)
          IN  r.outcome \in {"rejected", "refused"} =>
                  r.installed = installed /\ r.enabled = enabled

\* C3: a confirmed replace_source whose old copy cannot be located in the row
\* tree, or whose artifact is not on disk to be removed, never attempts the
\* install and leaves the record of the plugin at the old source
C3_ReplaceStopsWhenOldCopyStays ==
    \A path \in InstallRows, result \in InstallResults, results \in AnyLoad,
       strict \in BOOLEAN :
        LET id == model[path].id
            r == signal_renderer_toggled_install(State, path, TRUE, result,
                                                 results, strict)
        IN  ( /\ InstallKind(State, path) = "replace_source"
              /\ \/ MatchingRow(State, path, installed[id]) = << >>
                 \/ disk[id] = "none" )
            => /\ "install_plugin" \notin r.calls
               /\ id \in DOMAIN r.installed
               /\ r.installed[id] = installed[id]

\* C4: when the plugin is installed from (C1,R1) and a confirmed
\* replace_source to (C2,R2) succeeds, the record names (C2,R2), the row under
\* (C2,R2) is installed and the row under (C1,R1) is not
C4_ReplaceMovesInstalledRow ==
    \A path \in InstallRows, results \in AnyLoad, strict \in BOOLEAN :
        LET id == model[path].id
            r == signal_renderer_toggled_install(State, path, TRUE, "ok",
                                                 results, strict)
            old == <<installed[id].catalog_id, installed[id].repo_id, id>>
        IN  ( /\ InstallKind(State, path) = "replace_source"
              /\ installed[id] # None
              /\ r.outcome = "ok" )
            => /\ r.installed[id] = Source(path[1], path[2], id)
               /\ r.model[path].installed
               /\ old \in DOMAIN r.model
               /\ ~r.model[old].installed

\* C5: an install of a plugin without a record whose download raises
\* ConnectionError returns without raising, leaves config['plugins.installed']
\* unchanged and the row not installed, and shows the connectivity message,
\* not the generic one
C5_InstallOffline ==
    \A path \in InstallRows, confirm \in BOOLEAN, results \in AnyLoad, strict \in BOOLEAN :
        LET id == model[path].id
            r == signal_renderer_toggled_install(State, path, confirm,
                                                 "ConnectionError", results, strict)
        IN  (InstallKind(State, path) = "install" /\ id \notin DOMAIN installed)
            => /\ r.outcome = "failed"
               /\ r.installed = installed
               /\ ~r.model[path].installed
               /\ "check your internet connection" \in r.dialogs
               /\ "Failed to install" \notin r.dialogs

C5_Witness ==
    \E path \in InstallRows :
        /\ InstallKind(State, path) = "install"
        /\ model[path].id \notin DOMAIN installed
        /\ "install_plugin" \in
             signal_renderer_toggled_install(State, path, TRUE, "ConnectionError",
                                             NoLoad, FALSE).calls

\* C6: an uninstall that finds neither the directory nor the file of the plugin
\* returns failure, leaves config['plugins.installed'] untouched, does not
\* unload the plugin, and leaves the row installed
C6_UninstallMissingArtifact ==
    /\ \A path \in PluginRows :
          LET r == _uninstall_plugin(State, path)
          IN  disk[model[path].id] = "none"
              => /\ r.ret = FALSE /\ r.outcome # "raised"
                 /\ r.installed = installed
                 /\ r.loaded_plugins = loaded_plugins
                 /\ "pm.unload" \notin r.calls
                 /\ r.model = model
    /\ \A path \in InstallRows, confirm \in BOOLEAN, strict \in BOOLEAN :
          LET r == signal_renderer_toggled_install(State, path, confirm, "ok",
                                                   NoLoad, strict)
          IN  (model[path].installed /\ disk[model[path].id] = "none")
              => /\ r.outcome # "ok"
                 /\ r.installed = installed
                 /\ r.loaded_plugins = loaded_plugins
                 /\ "pm.unload" \notin r.calls
                 /\ r.model[path].installed

C6_Witness ==
    \E path \in InstallRows :
        /\ model[path].installed
        /\ disk[model[path].id] = "none"
        /\ model[path].id \in DOMAIN loaded_plugins
        /\ model[path].id \in DOMAIN installed
        /\ "_uninstall_plugin" \in
             signal_renderer_toggled_install(State, path, TRUE, "ok", NoLoad, FALSE).calls

\* C7: in every state reached by enable, disable, reload and install, after an
\* uninstall of a plugin, the user confirming the prompt, the plugin is not in
\* config['plugins.enabled'], and it is still not there after a second uninstall
C7_UninstalledIsNotEnabled ==
    \A path \in InstallRows, strict \in BOOLEAN :
        LET id == model[path].id
            r1 == signal_renderer_toggled_install(State, path, TRUE, "ok", NoLoad, strict)
            again == path \in DOMAIN r1.model /\ r1.model[path].installed
            r2 == IF again
                  THEN signal_renderer_toggled_install(Returned(r1), path, TRUE, "ok",
                                                       NoLoad, strict)
                  ELSE r1
        IN  (model[path].installed /\ r1.outcome # "raised" /\ r2.outcome # "raised")
            => id \notin Range(r1.enabled) /\ id \notin Range(r2.enabled)

\* C8: a reload of a plugin whose load raises leaves config['plugins.enabled']
\* unchanged, records the error of the plugin, titles the row
\* "<id> (Reload Failed)", and never calls the registry's enable
C8_FailedReload ==
    \A path \in PluginRows, ok \in BOOLEAN :
    \A result \in Klasses(model[path].id) \cup {LoadError} :
        LET id == model[path].id
            r == _reload(State, path, result, ok, "ok", NoLoad)
        IN  (model[path].installed /\ r.outcome = "failed")
            => /\ r.enabled = enabled
               /\ id \in r.module_errors
               /\ r.model[path].title = id \o " (Reload Failed)"
               /\ "pm.enable" \notin r.calls

C8_Witness ==
    \E path \in PluginRows :
        /\ model[path].title = model[path].id \o " (Reload Failed)"
        /\ model[path].id \in module_errors
        /\ model[path].id \in Range(enabled)

\* C9: after a reload of a plugin that succeeds, the plugin has no recorded
\* error, it is enabled in the registry exactly if it was before the reload,
\* and the title, compatibility and version of the row are those of the class
\* just loaded
C9_ReloadRestoresEnabled ==
    \A path \in PluginRows, ok \in BOOLEAN :
    \A result \in Klasses(model[path].id) :
        LET id == model[path].id
            r == _reload(State, path, result, ok, "ok", NoLoad)
        IN  (model[path].installed /\ r.outcome = "ok")
            => /\ id \notin r.module_errors
               /\ (id \in r.enabled_plugins) <=> (id \in enabled_plugins)
               /\ r.model[path].title = result.title
               /\ r.model[path].compatibility = YesNo(result.is_compatible)
               /\ r.model[path].version = result.version

\* C9, amended: after a reload of a plugin that succeeds, the plugin has no
\* recorded error, the title, compatibility and version of the row are those
\* of the class just loaded, the registry's enable is called exactly if the
\* plugin was enabled in the registry before the reload, and the plugin is
\* enabled afterwards only if it was before: again when the registry accepts
\* the new class, not when it refuses or the new class is incompatible
C9_ReloadAsksToRestoreEnabled ==
    \A path \in PluginRows, ok \in BOOLEAN :
    \A result \in Klasses(model[path].id) :
        LET id == model[path].id
            r == _reload(State, path, result, ok, "ok", NoLoad)
        IN  (model[path].installed /\ r.outcome = "ok")
            => /\ id \notin r.module_errors
               /\ (id \in r.enabled_plugins) => (id \in enabled_plugins)
               /\ ("pm.enable" \in r.calls) <=> (id \in enabled_plugins)
               /\ (id \in enabled_plugins /\ ok /\ result.is_compatible)
                      => id \in r.enabled_plugins
               /\ r.model[path].title = result.title
               /\ r.model[path].compatibility = YesNo(result.is_compatible)
               /\ r.model[path].version = result.version

C9_Witness ==
    \E path \in PluginRows :
        /\ model[path].installed
        /\ model[path].id \in enabled_plugins
        /\ model[path].id \in Available(State)
        /\ model[path].version # "1.1"
        /\ \E result \in Klasses(model[path].id) :
              model[path].id \in _reload(State, path, result, TRUE, "ok", NoLoad).enabled_plugins

\* C10: enable calls the registry's enable and appends the plugin to
\* config['plugins.enabled'] only when the plugin has no recorded error and its
\* loaded class is compatible; a plugin with a recorded error is turned away
\* before any call of the registry's enable; when either check fails
\* config['plugins.enabled'] and the enabled flag of the row are unchanged
C10_EnableGuards ==
    \A path \in EnableRows, ok \in BOOLEAN, strict \in BOOLEAN :
        LET id == model[path].id
            r == signal_renderer_toggled_enable(State, path, ok, strict)
            loaded == id \in DOMAIN loaded_plugins
            passes == id \notin module_errors /\ loaded_plugins[id].is_compatible
        IN  (~model[path].enabled /\ loaded)
            => /\ ("pm.enable" \in r.calls \/ r.enabled # enabled) => passes
               /\ id \in module_errors =>
                      "Can not enable a plugin which failed to load." \in r.dialogs
               /\ ~passes => /\ "pm.enable" \notin r.calls
                             /\ r.enabled = enabled
                             /\ r.model[path].enabled = model[path].enabled

C10_Witness ==
    \E path \in EnableRows :
        /\ ~model[path].enabled
        /\ model[path].id \in DOMAIN loaded_plugins
        /\ model[path].id \in module_errors
        /\ loaded_plugins[model[path].id].is_compatible
        /\ signal_renderer_toggled_enable(State, path, TRUE, FALSE).outcome = "rejected"

\* C11: a disable requested on a row of a plugin (the Enabled cell of a row
\* whose enabled flag is set is toggled) always succeeds and removes the plugin
\* from config['plugins.enabled'] when it is there, also when the plugin has a
\* recorded error or is not loaded; when it is not there, the request changes
\* nothing and raises nothing
C11_DisableAlwaysSucceeds ==
    \A path \in EnableRows, ok \in BOOLEAN, strict \in BOOLEAN :
        LET id == model[path].id
            r == signal_renderer_toggled_enable(State, path, ok, strict)
        IN  model[path].enabled
            => IF id \in Range(enabled)
               THEN r.outcome = "ok" /\ id \notin Range(r.enabled)
               ELSE /\ r.outcome # "raised"
                    /\ r.installed = installed /\ r.enabled = enabled
                    /\ r.enabled_plugins = enabled_plugins
                    /\ r.loaded_plugins = loaded_plugins
                    /\ r.model = model

\* C12: in the tree reconciliation produces, the row of plugin p under a live
\* catalog C and its repository R is installed exactly if the record of p names
\* C and R, and enabled exactly if it is installed and p is in
\* config['plugins.enabled']
C12_CatalogRowFlags ==
    \A results \in AnyLoad :
        LET r == _load_plugins(State, results)
        IN  \A c \in r.catalogs : \A repo \in Repositories(c) :
            \A p \in get_collection(c, repo) :
                /\ <<c, repo, p>> \in DOMAIN r.model
                /\ r.model[<<c, repo, p>>].installed
                     <=> /\ p \in DOMAIN r.installed
                         /\ r.installed[p] # None
                         /\ r.installed[p].catalog_id = c
                         /\ r.installed[p].repo_id = repo
                /\ r.model[<<c, repo, p>>].enabled
                     <=> /\ r.model[<<c, repo, p>>].installed
                         /\ p \in Range(r.enabled)

\* the tree is the one reconciliation produces, an enabled plugin is recorded
\* from one live repository and listed by another
C12_Witness ==
    /\ model = _load_plugins(State, NoLoad).model
    /\ \E p \in Range(enabled) :
       \E c \in catalogs, d \in catalogs :
       \E rc \in Repositories(c), rd \in Repositories(d) :
           /\ c # d
           /\ p \in get_collection(c, rc) /\ p \in get_collection(d, rd)
           /\ model[<<c, rc, p>>].installed /\ model[<<c, rc, p>>].enabled
           /\ ~model[<<d, rd, p>>].installed

\* C13: in the tree reconciliation produces, each plugin id has at most one row
\* with installed=true in the whole tree: the Local catalog with its
\* "(Load Failed)" rows, the live catalogs and the cached stub catalogs
C13_OneInstalledRow ==
    \A results \in AnyLoad :
        LET r == _load_plugins(State, results)
        IN  \A p \in Plugins :
                Cardinality({ path \in DOMAIN r.model :
                                /\ r.model[path].type = _ROW_TYPE_PLUGIN
                                /\ r.model[path].id = p
                                /\ r.model[path].installed }) <= 1

\* C14: after reconciliation every loaded plugin whose record is None, absent,
\* or names a catalog and repository without a matching live entry has a row
\* with installed=true under the Local catalog, unless a row of a cached stub
\* repository shows it
C14_LoadedPluginsVisible ==
    \A results \in AnyLoad :
        LET r == _load_plugins(State, results)
        IN  \A p \in DOMAIN r.loaded_plugins :
            LET src == r.installed[p]
                live == /\ src # None
                        /\ src.catalog_id \in r.catalogs
                        /\ src.repo_id \in Repositories(src.catalog_id)
                        /\ p \in get_collection(src.catalog_id, src.repo_id)
                stub == <<src.catalog_id, src.repo_id, p>>
            IN  ~live =>
                  \/ /\ <<_LOCAL_REPOSITORY_ID, p>> \in DOMAIN r.model
                     /\ r.model[<<_LOCAL_REPOSITORY_ID, p>>].installed
                  \/ /\ src # None
                     /\ src.catalog_id \in r.cache \ r.catalogs
                     /\ stub \in DOMAIN r.model
                     /\ r.model[stub].installed

C16_LocalEnabledRow ==
    \A results \in AnyLoad :
        LET r == _load_plugins(State, results)
        IN  (catalogs = {} /\ cache = {}) =>
            \A p \in DOMAIN r.loaded_plugins :
                ( /\ p \in DOMAIN installed /\ installed[p] = None
                  /\ p \in Range(enabled) )
                => /\ { path \in DOMAIN r.model :
                          /\ r.model[path].type = _ROW_TYPE_PLUGIN
                          /\ r.model[path].id = p } = { <<_LOCAL_REPOSITORY_ID, p>> }
                   /\ r.model[<<_LOCAL_REPOSITORY_ID, p>>].installed
                   /\ r.model[<<_LOCAL_REPOSITORY_ID, p>>].enabled

\* C17: in _load_catalogs without refresh, the cached document of a configured
\* catalog is reused, and nothing is fetched for it, exactly when the cache
\* has an entry for it that is less than 4 hours old; in every other case (no
\* entry, an entry of 4 hours or more, or refresh asked for) the catalog is
\* fetched from its URL
C17_CacheFreshness ==
    \A refresh \in BOOLEAN, results \in AnyLoad :
        \A in \in CatalogInputs(State, refresh) :
            LET r == _load_catalogs(State, refresh, in.age, in.valid, in.fetch, results)
                fresh(c) == ~refresh /\ c \in cache /\ in.age[c] < expiration
            IN  \A c \in Catalogs :
                    /\ ( /\ ("Catalog(cache) " \o c) \in r.calls
                         /\ ("Catalog.from_url " \o c) \notin r.calls ) <=> fresh(c)
                    /\ ~fresh(c) => ("Catalog.from_url " \o c) \in r.calls

\* C18: when the fetch of a catalog fails in _load_catalogs, a catalog with a
\* stale cache entry is added from the cache and no error is shown for it; a
\* catalog without a cache entry gets an error dialog and is skipped, and the
\* catalogs after it are still processed
C18_FetchFailureFallsBack ==
    \A refresh \in BOOLEAN, results \in AnyLoad :
        \A in \in CatalogInputs(State, refresh) :
            LET r == _load_catalogs(State, refresh, in.age, in.valid, in.fetch, results)
                failed == { c \in Catalogs : /\ ("Catalog.from_url " \o c) \in r.calls
                                             /\ in.fetch[c] # "ok" }
            IN  /\ \A c \in failed \cap cache : c \in r.catalogs
                /\ failed \subseteq cache => r.dialogs = {}
                /\ \A c \in failed \ cache :
                    /\ c \notin r.catalogs
                    /\ r.dialogs # {}
                    /\ \A d \in Catalogs :
                        \/ ("Catalog.from_url " \o d) \in r.calls
                        \/ ("Catalog(cache) " \o d) \in r.calls

\* C19: while the load thread is alive, Reload and Reload All start no thread
\* and change nothing, and the refresh callback of the tree view does not run
\* _load_plugins
C19_OneJobAtATime ==
    load_thread # "dead" =>
        /\ LET r == signal_popup_menu_activate_reload(State)
           IN  "Thread.start" \notin r.calls /\ Returned(r) = State
        /\ LET r == signal_popup_menu_activate_reload_all(State)
           IN  "Thread.start" \notin r.calls /\ Returned(r) = State
        /\ \A results \in AnyLoad : "_load_plugins" \notin cb_refresh(State, results).calls

\* C20: the target of the load thread never changes the row tree itself: it
\* clears the store, removes a row and sets the cells of a row only through
\* glib_idle_add, as it appends rows
C20_TreeMutationsMarshalled ==
    load_thread # "dead" =>
        \A in \in CatalogInputs(State, load_thread # "_load_catalogs()") :
            \A path \in DOMAIN model \cup {<< >>}, ok \in BOOLEAN, results \in AnyLoad :
                \A result \in Klasses("foo") \cup {LoadError} :
                    Target(State, in, path, result, ok, results).calls
                        \cap {"store.clear", "_model.remove", "_set_model_item"} = {}

\* C23 (as stated): a run of _load_plugins leaves config['plugins.installed']
\* and config['plugins.enabled'] exactly as they were before the run
C23_ReconciliationWritesNothing ==
    \A results \in AnyLoad :
        LET r == _load_plugins(State, results)
        IN  r.installed = installed /\ r.enabled = enabled

\* C23 (amended): a run of _load_plugins leaves config['plugins.enabled'] and
\* every entry of config['plugins.installed'] as they were; the only thing it
\* writes is the entry None for a loaded plugin that had no entry
C23_ReconciliationWritesNoneOnly ==
    \A results \in AnyLoad :
        LET r == _load_plugins(State, results)
        IN  /\ r.enabled = enabled
            /\ DOMAIN installed \subseteq DOMAIN r.installed
            /\ \A p \in DOMAIN installed : r.installed[p] = installed[p]
            /\ \A p \in DOMAIN r.installed \ DOMAIN installed :
                r.installed[p] = None /\ p \in DOMAIN r.loaded_plugins

\* a run that loads a plugin without an entry and writes None for it
C23_Witness ==
    \E results \in AnyLoad :
        DOMAIN _load_plugins(State, results).installed # DOMAIN installed

\* C24: config['plugins.enabled'] never holds the same plugin id twice, so one
\* disable takes the id out of it
C24_EnabledSetHasNoDuplicates ==
    \A i, j \in DOMAIN enabled : enabled[i] = enabled[j] => i = j

\* C25: an error is on record in _module_errors only for a plugin that is not
\* loaded: no loaded plugin keeps an error of an earlier failure
C25_ErrorsOnlyForUnloaded ==
    module_errors \cap DOMAIN loaded_plugins = {}

MaxJobs == 2

\* gui_utilities.glib_idle_add_once(function, ...) and glib_idle_add_wait: the
\* callback joins the callbacks GLib has been handed; the caller of
\* glib_idle_add_wait stays blocked until the main loop has run its callback
glib_idle_add(rows, wait) == [ rows |-> rows, wait |-> wait, stale |-> FALSE ]

\* the appends the thread makes from line 269 on, in the order it makes them:
\* for each live catalog its row, the row of each repository and the rows of
\* the repository's plugins, then the same for each catalog in the cache only
TreeSteps(s) ==
    LET live == SelectSeq(config_catalogs, LAMBDA c : c \in s.catalogs)
        stub == SelectSeq(config_catalogs, LAMBDA c : c \in s.cache \ s.catalogs)
        repo(c) == CHOOSE r \in Repositories(c) : TRUE
        steps(c, k) == << [kind |-> k \o "catalog", c |-> c, r |-> repo(c)],
                          [kind |-> k \o "repository", c |-> c, r |-> repo(c)],
                          [kind |-> k \o "plugins", c |-> c, r |-> repo(c)] >>
        F[i \in 0..Len(live)] ==
            IF i = 0 THEN << >> ELSE F[i - 1] \o steps(live[i], "")
        G[i \in 0..Len(stub)] ==
            IF i = 0 THEN << >> ELSE G[i - 1] \o steps(stub[i], "cached ")
    IN  F[Len(live)] \o G[Len(stub)]

\* the rows one of these appends carries, built when the thread gets to it
StepRows(s, step) ==
    CASE step.kind = "catalog" ->
             <<step.c>> :> _add_catalog_to_tree(s, step.c)[<<step.c>>]
      [] step.kind = "repository" ->
             <<step.c, step.r>> :> _add_catalog_to_tree(s, step.c)[<<step.c, step.r>>]
      [] step.kind = "plugins" -> _add_plugins_to_tree(s, step.c, step.r)
      [] step.kind = "cached catalog" -> <<step.c>> :> StubRows(s, step.c)[<<step.c>>]
      [] step.kind = "cached repository" ->
             <<step.c, step.r>> :> StubRows(s, step.c)[<<step.c, step.r>>]
      [] step.kind = "cached plugins" -> _add_plugins_offline(s, step.c, step.r)

\* store.append(parent, model) in an idle callback: a row whose parent row is
\* not in the store is not added, and after a store.clear() the parent a
\* callback holds is a row of the store no more
store_append(m, callback) ==
    IF callback.stale THEN m
    ELSE LET rows == callback.rows
             ok == { path \in DOMAIN rows :
                       Len(path) = 1 \/ SubSeq(path, 1, Len(path) - 1) \in DOMAIN m }
         IN  [ path \in ok |-> rows[path] ] @@ m

\* the window as __init__ leaves it, the load thread about to run
\* _load_catalogs()
InitIdle ==
    \E inst \in [Plugins -> {None} \cup UNION { Sources(p) : p \in Plugins }],
       keys \in SUBSET Plugins, en \in SUBSET Plugins, files \in SUBSET Plugins,
       bundled \in SUBSET Plugins, cached \in SUBSET Catalogs :
        /\ \A p \in keys : inst[p] = None \/ inst[p] \in Sources(p)
        /\ \A p \in Plugins \ keys : inst[p] = None
        /\ en \subseteq keys \cap (files \cup bundled)
        /\ LET order == CHOOSE q \in [1..Cardinality(en) -> en] :
                            \A i, j \in DOMAIN q : i # j => q[i] # q[j]
           IN  Fields(
                 [ installed |-> [ p \in keys |-> inst[p] ],
                   enabled |-> order,
                   loaded_plugins |->
                       [ p \in en |-> CHOOSE k \in Klasses(p) : k.is_compatible ],
                   enabled_plugins |-> en,
                   module_errors |-> {},
                   disk |-> [ p \in Plugins |->
                              IF p \in files THEN ArtifactForm(p) ELSE "none" ],
                   search_path |-> bundled,
                   catalogs |-> {}, cache |-> cached, model |-> << >>,
                   load_thread |-> "_load_catalogs()",
                   outcome |-> "ok", dialogs |-> {}, calls |-> {}, ret |-> TRUE ])
        /\ thread = [ NoThread EXCEPT !.pc = "_load_catalogs", !.jobs = 1 ]
        /\ idle = << >>
        /\ handler = NoHandler

\* the thread can take its next step: it is not inside glib_idle_add_wait
Running(pc) == thread.pc = pc /\ ~thread.waiting

\* lines 163-184: the catalogs are loaded, from the cache or from their URLs;
\* an exception ends the thread
ThreadLoadCatalogs ==
    /\ Running("_load_catalogs")
    /\ \E in \in CatalogInputs(State, load_thread # "_load_catalogs()") :
        LET s == LoadEachCatalog([ State EXCEPT !.catalogs = {} ],
                                 load_thread # "_load_catalogs()",
                                 in.age, in.valid, in.fetch, 1)
        IN  IF s.outcome = "raised"
            THEN /\ Write([ s EXCEPT !.load_thread = "dead" ])
                 /\ thread' = [ thread EXCEPT !.pc = "dead" ]
            ELSE /\ Write(s)
                 /\ thread' = [ thread EXCEPT !.pc = "clear" ]
    /\ UNCHANGED << idle, handler >>

\* lines 239-241: store.clear(), called by the thread itself, and
\* self._module_errors = {}
ThreadClear ==
    /\ Running("clear")
    /\ Write([ State EXCEPT !.model = << >>, !.module_errors = {} ])
    /\ idle' = [ i \in DOMAIN idle |-> [ idle[i] EXCEPT !.stale = TRUE ] ]
    /\ thread' = [ thread EXCEPT !.pc = "load_all" ]
    /\ UNCHANGED handler

\* line 242: pm.load_all(on_error=self._on_plugin_load_error)
ThreadLoadAll ==
    /\ Running("load_all")
    /\ \E results \in LoadInputs({}) : Write(load_all(State, results))
    /\ thread' = [ thread EXCEPT !.pc = "local" ]
    /\ UNCHANGED << idle, handler >>

\* lines 243-245: the row of the Local catalog, with glib_idle_add_wait
ThreadLocalRow ==
    /\ Running("local")
    /\ idle' = Append(idle, glib_idle_add(
                   <<_LOCAL_REPOSITORY_ID>> :> LocalRows(State, {})[<<_LOCAL_REPOSITORY_ID>>],
                   TRUE))
    /\ thread' = [ thread EXCEPT !.pc = "loop", !.waiting = TRUE, !.models = << >> ]
    /\ UNCHANGED << installed, enabled, loaded_plugins, enabled_plugins, module_errors,
                    disk, search_path, catalogs, cache, model, load_thread, handler >>

\* line 246: the iteration over pm.loaded_plugins.items() starts
ThreadLoop ==
    /\ Running("loop")
    /\ thread' = [ thread EXCEPT !.pc = "check", !.keys = DOMAIN loaded_plugins,
                                 !.names = DOMAIN loaded_plugins ]
    /\ UNCHANGED << installed, enabled, loaded_plugins, enabled_plugins, module_errors,
                    disk, search_path, catalogs, cache, model, load_thread,
                    idle, handler >>

\* lines 246-248: the next loaded plugin is skipped when its record is truthy;
\* a dict that changed size under the iteration raises RuntimeError and ends
\* the thread
ThreadCheck ==
    /\ Running("check")
    /\ IF thread.names # {} /\ DOMAIN loaded_plugins # thread.keys
       THEN /\ thread' = [ thread EXCEPT !.pc = "dead" ]
            /\ load_thread' = "dead"
       ELSE /\ UNCHANGED load_thread
            /\ \/ /\ thread.names = {}
                  /\ thread' = [ thread EXCEPT !.pc = "extend" ]
               \/ \E name \in thread.names :
                    thread' = IF Truthy(State, name)
                              THEN [ thread EXCEPT !.names = @ \ {name} ]
                              ELSE [ thread EXCEPT !.names = @ \ {name},
                                       !.name = name, !.pc = "write",
                                       !.plugin = loaded_plugins[name] ]
    /\ UNCHANGED << installed, enabled, loaded_plugins, enabled_plugins, module_errors,
                    disk, search_path, catalogs, cache, model, idle, handler >>

\* lines 249-261: None is recorded for the plugin and its Local row is built
ThreadWrite ==
    /\ Running("write")
    /\ LET name == thread.name
           path == <<_LOCAL_REPOSITORY_ID, name>>
           plugins == [ State EXCEPT !.loaded_plugins = (name :> thread.plugin) @@ @ ]
       IN  /\ Write([ State EXCEPT !.installed = (name :> None) @@ @ ])
           /\ thread' = [ thread EXCEPT !.pc = "check", !.name = "",
                            !.plugin = LoadError, !.models =
                              (path :> LocalRows(plugins, {name})[path]) @@ @ ]
    /\ UNCHANGED << idle, handler >>

\* line 262: the Local rows of the plugins, with glib_idle_add_once
ThreadExtend ==
    /\ Running("extend")
    /\ idle' = Append(idle, glib_idle_add(thread.models, FALSE))
    /\ thread' = [ thread EXCEPT !.pc = "errors", !.models = << >> ]
    /\ UNCHANGED << installed, enabled, loaded_plugins, enabled_plugins, module_errors,
                    disk, search_path, catalogs, cache, model, load_thread, handler >>

\* lines 265-267: one "(Load Failed)" row for each error, with
\* glib_idle_add_once; then the catalogs are listed (lines 269, 272-275)
ThreadErrors ==
    /\ Running("errors")
    /\ idle' = IF module_errors = {} THEN idle
               ELSE Append(idle, glib_idle_add(
                   [ path \in { <<_LOCAL_REPOSITORY_ID, p>> : p \in module_errors } |->
                       LocalRows(State, {})[path] ],
                   FALSE))
    /\ thread' = [ thread EXCEPT !.pc = "trees", !.todo = TreeSteps(State) ]
    /\ UNCHANGED << installed, enabled, loaded_plugins, enabled_plugins, module_errors,
                    disk, search_path, catalogs, cache, model, load_thread, handler >>

\* lines 270 and 276-283: the next append of the catalog trees; the catalog
\* and repository rows with glib_idle_add_wait, the plugin rows of a
\* repository with glib_idle_add_once
ThreadEmit ==
    /\ Running("trees")
    /\ thread.todo # << >>
    /\ LET step == Head(thread.todo)
           wait == step.kind \notin {"plugins", "cached plugins"}
           skip == step.kind = "plugins" /\ get_collection(step.c, step.r) = {}
       IN  /\ idle' = IF skip THEN idle
                      ELSE Append(idle, glib_idle_add(StepRows(State, step), wait))
           /\ thread' = [ thread EXCEPT !.todo = Tail(@), !.waiting = wait ]
    /\ UNCHANGED << installed, enabled, loaded_plugins, enabled_plugins, module_errors,
                    disk, search_path, catalogs, cache, model, load_thread, handler >>

\* lines 285-286: the target returns, the thread is alive no more
ThreadEnd ==
    /\ Running("trees")
    /\ thread.todo = << >>
    /\ Write([ State EXCEPT !.load_thread = "dead" ])
    /\ thread' = [ thread EXCEPT !.pc = "dead" ]
    /\ UNCHANGED << idle, handler >>

\* the main loop runs the oldest idle callback; it runs none while a handler
\* keeps it busy, but the loop of a dialog the handler shows runs them
Dispatch ==
    /\ idle # << >>
    /\ handler.pc \in {"none", "dialog"}
    /\ model' = store_append(model, Head(idle))
    /\ idle' = Tail(idle)
    /\ thread' = IF Head(idle).wait THEN [ thread EXCEPT !.waiting = FALSE ] ELSE thread
    /\ UNCHANGED << installed, enabled, loaded_plugins, enabled_plugins, module_errors,
                    disk, search_path, catalogs, cache, load_thread, handler >>

\* Reload All in the popup menu: the thread is started on
\* _load_catalogs(refresh=True) unless the load thread is alive
ReloadAllStarts ==
    /\ handler.pc = "none"
    /\ load_thread = "dead"
    /\ thread.jobs < MaxJobs
    /\ Write(signal_popup_menu_activate_reload_all(State))
    /\ thread' = [ NoThread EXCEPT !.pc = "_load_catalogs", !.jobs = thread.jobs + 1 ]
    /\ UNCHANGED << idle, handler >>

\* signal_renderer_toggled_install on a row that is not installed, lines
\* 529-545: the row is read, and the dialog is shown when the plugin is
\* recorded from another source
InstallBegin ==
    /\ handler.pc = "none"
    /\ \E path \in InstallRows :
        /\ ~model[path].installed
        /\ handler' = [ pc |-> IF InstallKind(State, path) = "replace_source"
                               THEN "dialog" ELSE "install_plugin",
                        path |-> path,
                        plugin_src |-> IF model[path].id \in DOMAIN installed
                                       THEN installed[model[path].id] ELSE None,
                        overlap |-> load_thread # "dead",
                        written |-> FALSE ]
    /\ UNCHANGED << installed, enabled, loaded_plugins, enabled_plugins, module_errors,
                    disk, search_path, catalogs, cache, model, load_thread,
                    thread, idle >>

\* lines 545-549: the answer to the dialog; on yes the copy on record is
\* removed (self._model[path] raises when the row is gone)
InstallConfirm ==
    /\ handler.pc = "dialog"
    /\ \E confirm \in BOOLEAN :
       \E strict \in Input(confirm /\ handler.path[3] \notin enabled_plugins, BOOLEAN, FALSE) :
        IF ~confirm \/ handler.path \notin DOMAIN model
        THEN /\ handler' = [ handler EXCEPT !.pc = "none" ]
             /\ UNCHANGED << installed, enabled, loaded_plugins, enabled_plugins,
                             module_errors, disk, search_path, catalogs, cache,
                             model, load_thread >>
        ELSE LET s == _remove_matching_plugin(State, handler.path,
                                              handler.plugin_src, strict)
             IN  /\ Write(s)
                 /\ handler' = [ handler EXCEPT !.pc =
                                   IF s.outcome = "raised" \/ ~s.ret
                                   THEN "none" ELSE "install_plugin" ]
    /\ UNCHANGED << thread, idle >>

\* lines 552-562: install_plugin writes the artifact, or raises
InstallDownload ==
    /\ handler.pc = "install_plugin"
    /\ \E result \in StepResults :
        /\ Write(install_plugin(State, handler.path[3], result))
        /\ handler' = [ handler EXCEPT !.pc = IF result = "ok" THEN "record" ELSE "none" ]
    /\ UNCHANGED << thread, idle >>

\* lines 564-569: the record is written, the row updated (self._model[path]
\* raises when the row is gone) and the registry loads what is new
InstallRecord ==
    /\ handler.pc = "record"
    /\ LET path == handler.path
           id == path[3]
           s1 == [ State EXCEPT !.installed = (id :> Source(path[1], path[2], id)) @@ @ ]
       IN  IF path \notin DOMAIN model THEN Write(s1)
           ELSE \E results \in LoadInputs({}) :
                  Write(load_all(
                      _set_model_item(_set_model_item(s1, path, "installed", TRUE),
                                      path, "version", CollectionVersion(path[1])),
                      results))
    /\ handler' = [ handler EXCEPT !.pc = "none", !.written = TRUE ]
    /\ UNCHANGED << thread, idle >>

NextIdle ==
    \/ ThreadLoadCatalogs \/ ThreadClear \/ ThreadLoadAll \/ ThreadLocalRow
    \/ ThreadLoop \/ ThreadCheck \/ ThreadWrite \/ ThreadExtend \/ ThreadErrors
    \/ ThreadEmit \/ ThreadEnd \/ Dispatch \/ ReloadAllStarts
    \/ InstallBegin \/ InstallConfirm \/ InstallDownload \/ InstallRecord
SpecIdle == InitIdle /\ [][NextIdle]_vars

\* C21: the appends a reconciliation hands to the main loop are run in the
\* order they were made: no append of rows is still waiting that was made
\* before the last store.clear(), and the parent row of every row a waiting
\* callback appends is in the store or is appended by a callback made before it
C21_AppendsInEmissionOrder ==
    \A i \in DOMAIN idle :
        /\ idle[i].rows # << >> => ~idle[i].stale
        /\ \A path \in DOMAIN idle[i].rows :
            Len(path) > 1 =>
                LET parent == SubSeq(path, 1, Len(path) - 1)
                IN  \/ parent \in DOMAIN model
                    \/ \E j \in 1..(i - 1) : parent \in DOMAIN idle[j].rows

\* C26: when a reconciliation on the load thread and an install of p from
\* (C, R) that ran while the thread was alive have both finished, the record
\* of p names C and R, and p is installed on exactly one row
C26_InstallSurvivesReconciliation ==
    ( /\ load_thread = "dead" /\ idle = << >>
      /\ handler.pc = "none" /\ handler.written /\ handler.overlap )
    => LET path == handler.path
           p == path[3]
       IN  /\ p \in DOMAIN installed
           /\ installed[p] = Source(path[1], path[2], p)
           /\ Cardinality({ q \in DOMAIN model :
                              /\ model[q].type = _ROW_TYPE_PLUGIN
                              /\ model[q].id = p
                              /\ model[q].installed }) = 1
====
